---- MODULE Spec2Model ----
(***************************************************************************)
(* Model of app.py: a Flask backend with one endpoint, POST /api/query,    *)
(* that strips the question, calls the Gemini client, inserts the          *)
(* question/answer pair into the SQLite table `queries` and answers.       *)
(*                                                                         *)
(* Requests are handled concurrently, each with its own application        *)
(* context (flask.g) and so its own SQLite connection.  The steps of one   *)
(* request that touch something shared or external are separate actions:   *)
(* Receive (lines 74-78), Generate (86-90), Insert (93-97), Commit (98),    *)
(* Respond (100-103), Teardown (42-47).  The except branch (105-107) is     *)
(* local to the request and is part of the step that raised.               *)
(*                                                                         *)
(* Strings that the code inspects (the question) are sequences of          *)
(* characters; the answer text is opaque to the code and is a string.      *)
(* The column `timestamp` is never read by the program and is not          *)
(* modelled.                                                               *)
(***************************************************************************)
EXTENDS Integers, Sequences, FiniteSets

(* ----------------------------- bounds --------------------------------- *)

\* Number of requests the model lets arrive (all may be in flight at once).
NumReq == 2

Req == 1..NumReq

(* --------------------------- input domains ---------------------------- *)

\* Characters str.strip() removes (a sample of Python's whitespace).
Whitespace == {" ", "\t"}

\* Question strings a client may send.
Questions ==
    { <<>>,
      <<" ", "\t">>,
      <<" ", "a", "\t">>,
      <<"a", " ", "b", " ">> }

\* Request bodies: a body that is not JSON, a JSON value that is not an
\* object, an object without "question", an object whose "question" is not
\* a string (null, a number), an object with a string "question".
Payloads ==
    { [kind |-> k, q |-> <<>>] :
        k \in {"malformed", "non_object", "no_field", "non_string"} }
    \cup { [kind |-> "string", q |-> s] : s \in Questions }

NoPayload == [kind |-> "none", q |-> <<>>]

\* response.text of the Gemini client: a text (possibly empty) or None.
None == "<None>"
AiTexts == {"", "4"}

(* ----------------------------- state ---------------------------------- *)

VARIABLES
    started,        \* the module has been imported (lines 1-61 have run)
    apiKey,         \* GEMINI_API_KEY is present in the environment
    client,         \* module global `client`: "unset", "ready", "undefined"
    schema,         \* the table `queries` exists in queries.db
    queries,        \* committed rows of `queries`, in insertion order
    pc,             \* position of each request
    payload,        \* body of each request
    user_question,  \* local `user_question` of handle_query
    gateway,        \* "not_called", "raised", "returned"
    ai_answer,      \* local `ai_answer` of handle_query
    conn,           \* g._database: "none", "open", "closed"
    opened,         \* number of sqlite3.connect calls that returned
    pending,        \* uncommitted row of the request's connection
    store,          \* progress of the store write of the request
    resp            \* response of the request

vars == << started, apiKey, client, schema, queries, pc, payload,
           user_question, gateway, ai_answer, conn, opened, pending,
           store, resp >>

NoRow == [id |-> 0, question |-> <<>>, answer |-> "", req |-> 0]

NoResp == [status |-> 0, key |-> "", text |-> ""]

\* jsonify({"error": "No question provided."}), 400
Resp400 == [status |-> 400, key |-> "error", text |-> "No question provided."]

\* jsonify({"error": "An error occurred while contacting the AI."}), 500
Resp500 ==
    [status |-> 500, key |-> "error",
     text |-> "An error occurred while contacting the AI."]

\* jsonify({"answer": ai_answer})  (status 200 by default)
RespAnswer(t) == [status |-> 200, key |-> "answer", text |-> t]

\* What Flask answers when an exception leaves the view function: the
\* HTTPException's own page for BadRequest, the 500 page for any other.
FlaskErrorPage(exc) ==
    IF exc = "BadRequest"
    THEN [status |-> 400, key |-> "html", text |-> "Bad Request"]
    ELSE [status |-> 500, key |-> "html", text |-> "Internal Server Error"]

(* ------------------------- pure functions ----------------------------- *)

RECURSIVE lstrip(_)
lstrip(s) ==
    IF s = <<>> THEN s
    ELSE IF Head(s) \in Whitespace THEN lstrip(Tail(s)) ELSE s

RECURSIVE rstrip(_)
rstrip(s) ==
    IF s = <<>> THEN s
    ELSE IF s[Len(s)] \in Whitespace
         THEN rstrip(SubSeq(s, 1, Len(s) - 1))
         ELSE s

strip_none(s) == s

\* str.strip(): leading and trailing whitespace removed.
strip(s) == rstrip(lstrip(s))

\* Lines 74-75: request.get_json(), data.get('question', ''), .strip().
\* The exception raised, if any, and the stripped question.
Extract(p) ==
    CASE p.kind = "malformed"  -> [exc |-> "BadRequest", question |-> <<>>]
      [] p.kind = "non_object" -> [exc |-> "AttributeError", question |-> <<>>]
      [] p.kind = "non_string" -> [exc |-> "AttributeError", question |-> <<>>]
      [] p.kind = "no_field"   -> [exc |-> "none", question |-> strip(<<>>)]
      [] OTHER                 -> [exc |-> "none", question |-> strip(p.q)]

NoQuestionNever(q) == FALSE

\* Line 77: `if not user_question`.
NoQuestion(q) == q = <<>>

\* Lines 51-61: the client after start-up.  Without a key the constructor
\* either raises (the name `client` stays undefined) or builds a client
\* that has no credential.
ClientInit(key) == IF key THEN {"ready"} ELSE {"ready", "undefined"}

GenerateOutcomesAnyKey(cl, key) == {"raised", None} \cup AiTexts

\* Lines 86-90: what generate_content / response.text can produce:
\* "raised" or the value of response.text.
GenerateOutcomes(cl, key) ==
    IF cl /= "ready" \/ ~key
    THEN {"raised"}
    ELSE {"raised", None} \cup AiTexts

init_db_recreate(exists, rows) == <<>>

\* Lines 29-37: CREATE TABLE IF NOT EXISTS queries (...); the rows after.
init_db(exists, rows) == IF exists THEN rows ELSE <<>>

NextIdFixed(rows) == 1

\* Line 31: id INTEGER PRIMARY KEY AUTOINCREMENT.  No row is ever deleted,
\* so the next id is one more than the number of committed rows.
NextId(rows) == Len(rows) + 1

\* Lines 94-97: the row of the INSERT (req: the request whose connection
\* wrote it; bookkeeping of the model, not a column).
NewRow(r) ==
    [id |-> NextId(queries), question |-> user_question[r],
     answer |-> ai_answer[r], req |-> r]

commit_lost(rows, row) == rows

\* Line 98: db.commit() makes the pending row part of the table.
commit(rows, row) == Append(rows, row)

close_connection_leak(c) == c

\* Lines 45-47: close the connection of the context if there is one.
close_connection(c) == IF c = "open" THEN "closed" ELSE c

close_commits(rows, row) == IF row = NoRow THEN rows ELSE Append(rows, row)

\* Line 47: closing a connection rolls its open transaction back.
RowsAfterClose(rows, row) == rows

\* SQLite allows one writer: a connection with an uncommitted INSERT holds
\* the write lock until it commits or closes.
LockHeld == \E r \in Req : pending[r] /= NoRow

(* ------------------------------ Init ---------------------------------- *)

\* Before the module is imported: the database file may or may not hold
\* the table already (an earlier run), the key may or may not be set.
Init ==
    /\ started = FALSE
    /\ apiKey \in BOOLEAN
    /\ client = "unset"
    /\ schema \in BOOLEAN
    /\ queries = <<>>
    /\ pc = [r \in Req |-> "idle"]
    /\ payload = [r \in Req |-> NoPayload]
    /\ user_question = [r \in Req |-> <<>>]
    /\ gateway = [r \in Req |-> "not_called"]
    /\ ai_answer = [r \in Req |-> ""]
    /\ conn = [r \in Req |-> "none"]
    /\ opened = [r \in Req |-> 0]
    /\ pending = [r \in Req |-> NoRow]
    /\ store = [r \in Req |-> "untouched"]
    /\ resp = [r \in Req |-> NoResp]

(* ----------------------------- actions -------------------------------- *)

\* Lines 40, 51-61: module import: init_db(), then the client.
Startup ==
    /\ ~started
    /\ started' = TRUE
    /\ queries' = init_db(schema, queries)
    /\ schema' = TRUE
    /\ client' \in ClientInit(apiKey)
    /\ UNCHANGED << apiKey, pc, payload, user_question, gateway, ai_answer,
                    conn, opened, pending, store, resp >>

\* Lines 24-37 run again (another worker process imports the module).
InitDb ==
    /\ started
    /\ queries' = init_db(schema, queries)
    /\ schema' = TRUE
    /\ UNCHANGED << started, apiKey, client, pc, payload, user_question,
                    gateway, ai_answer, conn, opened, pending, store, resp >>

\* Lines 74-82: read the body, strip the question, validate.
Receive(r, p) ==
    /\ started
    /\ pc[r] = "idle"
    /\ payload' = [payload EXCEPT ![r] = p]
    /\ LET e == Extract(p) IN
         IF e.exc /= "none"
         THEN /\ resp' = [resp EXCEPT ![r] = FlaskErrorPage(e.exc)]
              /\ pc' = [pc EXCEPT ![r] = "teardown"]
              /\ UNCHANGED user_question
         ELSE /\ user_question' = [user_question EXCEPT ![r] = e.question]
              /\ IF NoQuestion(e.question)
                 THEN /\ resp' = [resp EXCEPT ![r] = Resp400]
                      /\ pc' = [pc EXCEPT ![r] = "teardown"]
                 ELSE /\ resp' = resp
                      /\ pc' = [pc EXCEPT ![r] = "generate"]
    /\ UNCHANGED << started, apiKey, client, schema, queries, gateway,
                    ai_answer, conn, opened, pending, store >>

\* Generate with the call wrapped in its own handler that swallows the
\* error: the flow goes on to the INSERT with ai_answer still "" (line 82).
GenerateSwallow(r, o) ==
    /\ pc[r] = "generate"
    /\ o \in GenerateOutcomes(client, apiKey)
    /\ IF o = "raised"
       THEN /\ gateway' = [gateway EXCEPT ![r] = "raised"]
            /\ UNCHANGED ai_answer
       ELSE /\ gateway' = [gateway EXCEPT ![r] = "returned"]
            /\ ai_answer' = [ai_answer EXCEPT ![r] = o]
    /\ pc' = [pc EXCEPT ![r] = "insert"]
    /\ UNCHANGED << started, apiKey, client, schema, queries, payload,
                    user_question, conn, opened, pending, store, resp >>

\* Lines 86-90 (and 105-107 when the call raises).
Generate(r, o) ==
    /\ pc[r] = "generate"
    /\ o \in GenerateOutcomes(client, apiKey)
    /\ IF o = "raised"
       THEN /\ gateway' = [gateway EXCEPT ![r] = "raised"]
            /\ resp' = [resp EXCEPT ![r] = Resp500]
            /\ pc' = [pc EXCEPT ![r] = "teardown"]
            /\ UNCHANGED ai_answer
       ELSE /\ gateway' = [gateway EXCEPT ![r] = "returned"]
            /\ ai_answer' = [ai_answer EXCEPT ![r] = o]
            /\ pc' = [pc EXCEPT ![r] = "insert"]
            /\ UNCHANGED resp
    /\ UNCHANGED << started, apiKey, client, schema, queries, payload,
                    user_question, conn, opened, pending, store >>

\* Lines 93-97 (and 105-107 on failure): get_db() and the INSERT.
\* o = "connect_error": sqlite3.connect raises; o = "error": execute
\* raises (NOT NULL violated, database locked, I/O error); o = "ok".
Insert(r, o) ==
    /\ pc[r] = "insert"
    /\ o \in {"connect_error", "error", "ok"}
    /\ o = "ok" => (schema /\ ~LockHeld /\ ai_answer[r] /= None)
    /\ IF o = "connect_error"
       THEN UNCHANGED << conn, opened >>
       ELSE /\ conn' = [conn EXCEPT ![r] = "open"]
            /\ opened' = [opened EXCEPT ![r] = @ + 1]
    /\ IF o = "ok"
       THEN /\ pending' = [pending EXCEPT ![r] = NewRow(r)]
            /\ store' = [store EXCEPT ![r] = "inserted"]
            /\ pc' = [pc EXCEPT ![r] = "commit"]
            /\ UNCHANGED resp
       ELSE /\ store' = [store EXCEPT ![r] = "insert_failed"]
            /\ resp' = [resp EXCEPT ![r] = Resp500]
            /\ pc' = [pc EXCEPT ![r] = "teardown"]
            /\ UNCHANGED pending
    /\ UNCHANGED << started, apiKey, client, schema, queries, payload,
                    user_question, gateway, ai_answer >>

\* Line 98 (and 105-107 on failure): db.commit().
Commit(r, ok) ==
    /\ pc[r] = "commit"
    /\ IF ok
       THEN /\ queries' = commit(queries, pending[r])
            /\ pending' = [pending EXCEPT ![r] = NoRow]
            /\ store' = [store EXCEPT ![r] = "committed"]
            /\ pc' = [pc EXCEPT ![r] = "respond"]
            /\ UNCHANGED resp
       ELSE /\ store' = [store EXCEPT ![r] = "commit_failed"]
            /\ resp' = [resp EXCEPT ![r] = Resp500]
            /\ pc' = [pc EXCEPT ![r] = "teardown"]
            /\ UNCHANGED << queries, pending >>
    /\ UNCHANGED << started, apiKey, client, schema, payload, user_question,
                    gateway, ai_answer, conn, opened >>

\* Lines 100-103: return jsonify({"answer": ai_answer}).
Respond(r) ==
    /\ pc[r] = "respond"
    /\ resp' = [resp EXCEPT ![r] = RespAnswer(ai_answer[r])]
    /\ pc' = [pc EXCEPT ![r] = "teardown"]
    /\ UNCHANGED << started, apiKey, client, schema, queries, payload,
                    user_question, gateway, ai_answer, conn, opened,
                    pending, store >>

\* Lines 42-47: teardown of the application context, on every exit path.
Teardown(r) ==
    /\ pc[r] = "teardown"
    /\ conn' = [conn EXCEPT ![r] = close_connection(conn[r])]
    /\ queries' = RowsAfterClose(queries, pending[r])
    /\ pending' = [pending EXCEPT ![r] = NoRow]
    /\ pc' = [pc EXCEPT ![r] = "done"]
    /\ UNCHANGED << started, apiKey, client, schema, payload, user_question,
                    gateway, ai_answer, opened, store, resp >>

Next ==
    \/ Startup
    \/ InitDb
    \/ \E r \in Req, p \in Payloads : Receive(r, p)
    \/ \E r \in Req, o \in {"raised", None} \cup AiTexts : Generate(r, o)
    \/ \E r \in Req, o \in {"connect_error", "error", "ok"} : Insert(r, o)
    \/ \E r \in Req, ok \in BOOLEAN : Commit(r, ok)
    \/ \E r \in Req : Respond(r)
    \/ \E r \in Req : Teardown(r)

Spec == Init /\ [][Next]_vars

(* ------------------------- vocabulary of the claims ------------------- *)

Finished(r) == pc[r] \in {"teardown", "done"}

Quiescent == \A r \in Req : pc[r] \in {"idle", "done"}

AllBlank(s) == \A i \in 1..Len(s) : s[i] \in Whitespace

\* The question is empty, whitespace-only or absent from the object.
BlankQuestion(p) ==
    \/ p.kind = "no_field"
    \/ p.kind = "string" /\ AllBlank(p.q)

\* A string question with something left after trimming.
ProperQuestion(p) == p.kind = "string" /\ ~AllBlank(p.q)

\* t is s without its leading and trailing whitespace (stated without strip).
IsTrimOf(t, s) ==
    \E a \in 0..Len(s), b \in 0..Len(s) :
        /\ a + b <= Len(s)
        /\ t = SubSeq(s, a + 1, Len(s) - b)
        /\ \A i \in 1..a : s[i] \in Whitespace
        /\ \A i \in (Len(s) - b + 1)..Len(s) : s[i] \in Whitespace
        /\ t /= <<>> => (t[1] \notin Whitespace /\ t[Len(t)] \notin Whitespace)

RowsOf(r) == { i \in 1..Len(queries) : queries[i].req = r }

StoreFailed(r) == store[r] \in {"insert_failed", "commit_failed"}

(* ------------------------------ claims -------------------------------- *)

\* C1: a request whose question is empty, whitespace-only or absent is
\* answered 400 {"error": "No question provided."}; the gateway is not
\* invoked for it and it touches neither a connection nor the table.
C1_BlankQuestionRejected ==
    \A r \in Req :
        (pc[r] /= "idle" /\ BlankQuestion(payload[r])) =>
            /\ resp[r] = Resp400
            /\ gateway[r] = "not_called"
            /\ store[r] = "untouched"
            /\ conn[r] = "none"
            /\ pending[r] = NoRow
            /\ RowsOf(r) = {}

C1_Witness ==
    \E r \in Req :
        /\ pc[r] = "done"
        /\ payload[r] = [kind |-> "string", q |-> <<" ", "\t">>]
        /\ resp[r] = Resp400
        /\ Len(queries) >= 1

\* C2: when the gateway returned T and the store write succeeded, the
\* response is 200 {"answer": T}; a 200 response is only produced after the
\* request's single record (trimmed question, T) is committed.
C2_SuccessStoresThenAnswers ==
    \A r \in Req :
        /\ (store[r] = "committed" /\ Finished(r)) =>
              resp[r] = RespAnswer(ai_answer[r])
        /\ resp[r].status = 200 =>
              /\ payload[r].kind = "string"
              /\ gateway[r] = "returned"
              /\ resp[r] = RespAnswer(ai_answer[r])
              /\ Cardinality(RowsOf(r)) = 1
              /\ \A i \in RowsOf(r) :
                    /\ IsTrimOf(queries[i].question, payload[r].q)
                    /\ queries[i].answer = ai_answer[r]

C2_Witness ==
    \E r \in Req :
        /\ pc[r] = "done"
        /\ payload[r].q = <<"a", " ", "b", " ">>
        /\ resp[r] = RespAnswer("4")
        /\ \E i \in RowsOf(r) :
              queries[i].question = <<"a", " ", "b">> /\ queries[i].answer = "4"

\* C3: when the gateway call raises, the response is the generic 500 and
\* the request neither opens a connection nor inserts or commits anything.
C3_GatewayFailureSkipsStore ==
    \A r \in Req :
        gateway[r] = "raised" =>
            /\ resp[r] = Resp500
            /\ store[r] = "untouched"
            /\ conn[r] = "none"
            /\ opened[r] = 0
            /\ pending[r] = NoRow
            /\ RowsOf(r) = {}

C3_Witness ==
    \E r \in Req :
        /\ pc[r] = "done"
        /\ gateway[r] = "raised"
        /\ apiKey /\ client = "ready"
        /\ Len(queries) >= 1

\* C4: when the insert or the commit fails after the gateway returned, the
\* response is the generic 500 (the answer is not returned) and once the
\* request has completed no record of it is in the table.
C4_StoreFailureLeavesNoRecord ==
    \A r \in Req :
        StoreFailed(r) =>
            /\ gateway[r] = "returned"
            /\ resp[r] = Resp500
            /\ RowsOf(r) = {}
            /\ pc[r] = "done" => pending[r] = NoRow

C4_Witness ==
    \E r \in Req :
        /\ pc[r] = "done"
        /\ store[r] = "commit_failed"
        /\ ai_answer[r] = "4"

\* C5 as stated: every record has a non-empty question and a non-empty
\* answer.
C5_Original ==
    \A i \in 1..Len(queries) :
        /\ queries[i].question /= <<>>
        /\ queries[i].answer \notin {"", None}

\* C5 amended: every record has a non-empty question and an answer that is
\* not NULL (the answer is the empty string when the gateway returns the
\* empty text).
C5_RecordsNonEmptyQuestionNonNullAnswer ==
    \A i \in 1..Len(queries) :
        /\ queries[i].question /= <<>>
        /\ queries[i].answer /= None

C5_Witness ==
    \E i \in 1..Len(queries) :
        /\ queries[i].question = <<"a">>
        /\ queries[i].answer = ""
        /\ pc[queries[i].req] = "done"

\* C6: every request, whatever its payload, ends with one of the three
\* documented responses, and no failure leaves the handler unhandled.
C6_Original ==
    \A r \in Req :
        Finished(r) =>
            \/ resp[r] = Resp400
            \/ resp[r] = Resp500
            \/ resp[r].status = 200 /\ resp[r].key = "answer"

\* C7: once a request has finished, no connection opened by it is open,
\* whatever its exit path; a request opens at most one connection.
C7_ConnectionClosedAtEnd ==
    \A r \in Req :
        /\ opened[r] <= 1
        /\ conn[r] = "none" <=> opened[r] = 0
        /\ pc[r] = "done" => conn[r] /= "open"

C7_Witness ==
    /\ \E r \in Req : pc[r] = "done" /\ conn[r] = "closed" /\ resp[r] = Resp500
    /\ \E r \in Req : pc[r] = "done" /\ conn[r] = "closed"
                      /\ resp[r].status = 200

\* C8: records are append-only: every step, of a request or of schema
\* initialisation, keeps each record at its place with its id, question
\* and answer.
C8_AppendOnly ==
    [][\A i \in 1..Len(queries) :
          /\ i <= Len(queries')
          /\ queries'[i] = queries[i]]_vars

C8_Witness ==
    /\ Len(queries) >= 1
    /\ queries[1].id = 1
    /\ \E r \in Req : pc[r] = "done" /\ store[r] = "commit_failed"

\* C9: without the credential the process still starts; afterwards every
\* request with a non-empty question gets the generic 500 and writes no
\* record, and an empty question still gets 400.
C9_MissingCredential ==
    ~apiKey =>
        /\ ~started => ENABLED Startup
        /\ queries = <<>>
        /\ \A r \in Req :
              /\ pending[r] = NoRow
              /\ (Finished(r) /\ ProperQuestion(payload[r])) =>
                    resp[r] = Resp500 /\ store[r] = "untouched"
              /\ (Finished(r) /\ BlankQuestion(payload[r])) =>
                    resp[r] = Resp400
              /\ (pc[r] /= "idle" /\ ProperQuestion(payload[r])) =>
                    pc[r] \in {"generate", "teardown", "done"}

C9_Witness ==
    /\ ~apiKey
    /\ started
    /\ client = "undefined"
    /\ \E r \in Req :
          pc[r] = "done" /\ ProperQuestion(payload[r]) /\ resp[r] = Resp500
    /\ \E r \in Req :
          pc[r] = "done" /\ BlankQuestion(payload[r]) /\ resp[r] = Resp400

\* C10: under any interleaving the records are exactly the inserts of the
\* requests that committed: ids are pairwise distinct, no request has two
\* records, each record holds the trimmed question and the gateway answer
\* of the request that wrote it, every 200 response has its record, and
\* when no request is in flight the number of records is the number of 200
\* responses.
C10_ConcurrentInsertsConsistent ==
    /\ \A i, j \in 1..Len(queries) :
          i /= j => (queries[i].id /= queries[j].id
                     /\ queries[i].req /= queries[j].req)
    /\ \A i \in 1..Len(queries) :
          LET r == queries[i].req IN
            /\ r \in Req
            /\ store[r] = "committed"
            /\ IsTrimOf(queries[i].question, payload[r].q)
            /\ queries[i].answer = ai_answer[r]
    /\ Len(queries) = Cardinality({ r \in Req : store[r] = "committed" })
    /\ \A r \in Req : resp[r].status = 200 => RowsOf(r) /= {}
    /\ Quiescent =>
          Len(queries) = Cardinality({ r \in Req : resp[r].status = 200 })

C10_Witness ==
    /\ Quiescent
    /\ Len(queries) >= 2
    /\ \E i, j \in 1..Len(queries) :
          /\ queries[i].question /= queries[j].question
          /\ queries[i].answer /= queries[j].answer

====
